---- MODULE Spec2Model ----
(***************************************************************************)
(* Congress Vote Tracker.                                                  *)
(*                                                                         *)
(* Vote Aggregator (src/client/src/App.jsx): the React state of App        *)
(* (settings, votes, loading, error) and the async callback fetchVotes,    *)
(* cut at its two awaits (the Senate request, the House request).          *)
(* Proxy Relay (src/server.js): the two Express handlers, cut at the       *)
(* await of axios.get.                                                     *)
(* getYearForCongress: the pure helper, applied to drawn inputs.           *)
(*                                                                         *)
(* JavaScript values are represented as follows.  A value that may be      *)
(* undefined is a sequence of length 0 (undefined) or 1.  A time value is  *)
(* <<n>> or NaN == <<>>.  Strings are TLA+ strings; template literals are  *)
(* concatenations, numbers are printed with ToString.                      *)
(***************************************************************************)
EXTENDS Integers, Sequences, FiniteSets, TLC

VARIABLES
    settings,      \* App: useState(loadSettings)
    votes,         \* App: useState([])
    loading,       \* App: useState(false)
    error,         \* App: useState(null): <<>> is null, <<m>> the message m
    pc,            \* position of the running fetchVotes callback
    cap,           \* the settings the latest fetchVotes invocation closed over
    fetchedVotes,  \* fetchVotes: let fetchedVotes
    requests,      \* URLs the latest fetchVotes invocation passed to fetch()
    received,      \* what those fetch() calls produced, per chamber
    relay,         \* server.js: the handler in progress
    outbound,      \* server.js: URLs passed to axios.get by the handler
    upstream,      \* server.js: how that axios.get settled, <<>> while pending
    reply,         \* server.js: what the handler sent, <<>> while none
    evalPrev,      \* getYearForCongress: previous evaluation
    evalCur        \* getYearForCongress: latest evaluation

clientVars == <<settings, votes, loading, error, pc, cap, fetchedVotes,
                requests, received>>
relayVars == <<relay, outbound, upstream, reply>>
yearVars == <<evalPrev, evalCur>>
vars == <<settings, votes, loading, error, pc, cap, fetchedVotes, requests,
          received, relay, outbound, upstream, reply, evalPrev, evalCur>>

-----------------------------------------------------------------------------
(* Bounds of the model.                                                    *)

MaxSenate == 2      \* longest roll_call array drawn
MaxHouse == 2       \* most rollcall-vote elements drawn
MaxCongress == 119  \* the last congress getYearForCongress is applied to

-----------------------------------------------------------------------------
(* JavaScript helpers.                                                     *)

Undefined == <<>>
NaN == <<>>

\* `${x}` and x + "T": an undefined operand prints as "undefined".
Str(x) == IF x = Undefined THEN "undefined" ELSE x[1]

\* String.prototype.trim, for the blank character.
RECURSIVE Trim(_)
Trim(s) ==
    IF Len(s) = 0 THEN s
    ELSE IF SubSeq(s, 1, 1) = " " THEN Trim(SubSeq(s, 2, Len(s)))
    ELSE IF SubSeq(s, Len(s), Len(s)) = " " THEN Trim(SubSeq(s, 1, Len(s) - 1))
    ELSE s

SnippetLen == 180

\* text.slice(0, 180)
Slice(text) == IF Len(text) > SnippetLen THEN SubSeq(text, 1, SnippetLen) ELSE text

\* Response.ok
Ok(status) == status >= 200 /\ status <= 299

-----------------------------------------------------------------------------
(* getYearForCongress and the URL builders.                                *)

getYearForCongress_OffByOne(congress, session) ==
    1789 + (congress - 1) * 2 + session

getYearForCongress(congress, session) ==
    1789 + (congress - 1) * 2 + (session - 1)

HOUSE_ROLLS_INDEX(year) == "/api/house/" \o ToString(year)

senateMenuUrl(congress, session) ==
    "/api/senate/" \o ToString(congress) \o "/" \o ToString(session)

-----------------------------------------------------------------------------
(* new Date(string): the time value of "YYYY-MM-DD" and of                 *)
(* "YYYY-MM-DDTHH:MM", NaN for every other string and for undefined.  The  *)
(* time value is counted in minutes, in an encoding that keeps the order   *)
(* of the calendar; the local offset of the date-time form is taken as 0.  *)

Digit(c) ==
    CASE c = "0" -> 0 [] c = "1" -> 1 [] c = "2" -> 2 [] c = "3" -> 3
      [] c = "4" -> 4 [] c = "5" -> 5 [] c = "6" -> 6 [] c = "7" -> 7
      [] c = "8" -> 8 [] c = "9" -> 9 [] OTHER -> -1

At(s, i) == SubSeq(s, i, i)

\* the number written at positions from..to of s, -1 if a position is no digit
RECURSIVE Num(_, _, _)
Num(s, from, to) ==
    IF from > to THEN 0
    ELSE LET hi == Num(s, from, to - 1)
             d == Digit(At(s, to))
         IN IF hi < 0 \/ d < 0 THEN -1 ELSE hi * 10 + d

DateParse(x) ==
    IF x = Undefined THEN NaN
    ELSE LET s == x[1]
             n == Len(s)
         IN IF n # 10 /\ n # 16 THEN NaN
            ELSE IF At(s, 5) # "-" \/ At(s, 8) # "-" THEN NaN
            ELSE IF n = 16 /\ (At(s, 11) # "T" \/ At(s, 14) # ":") THEN NaN
            ELSE LET y == Num(s, 1, 4)
                     mo == Num(s, 6, 7)
                     d == Num(s, 9, 10)
                     h == IF n = 16 THEN Num(s, 12, 13) ELSE 0
                     mi == IF n = 16 THEN Num(s, 15, 16) ELSE 0
                 IN IF y < 0 \/ mo < 1 \/ mo > 12 \/ d < 1 \/ d > 31
                       \/ h < 0 \/ h > 23 \/ mi < 0 \/ mi > 59
                    THEN NaN
                    ELSE <<(((y * 12 + mo) * 31 + d) * 24 + h) * 60 + mi>>

-----------------------------------------------------------------------------
(* fetchVotes: the final sort.                                             *)

\* (a, b) => new Date(b.date) - new Date(a.date)
Compare(a, b) ==
    LET x == DateParse(b.date)
        y == DateParse(a.date)
    IN IF x = NaN \/ y = NaN THEN NaN ELSE <<x[1] - y[1]>>

\* Array.prototype.sort reads a NaN result of the comparator as +0.
SortCompare(a, b) == LET v == Compare(a, b) IN IF v = NaN THEN 0 ELSE v[1]

\* The comparator's verdict on every pair of elements of list.
CompareTable(list) ==
    [i \in 1..Len(list) |-> [j \in 1..Len(list) |->
        SortCompare(list[i], list[j])]]

\* Whether the comparator is a consistent comparator for the elements it
\* gave the verdicts c on (ECMAScript, Array.prototype.sort).
Consistent(c) ==
    \A i, j, k \in DOMAIN c :
        /\ (c[i][j] = 0 /\ c[j][k] = 0) => c[i][k] = 0
        /\ (c[i][j] < 0 /\ c[j][k] < 0) => c[i][k] < 0
        /\ (c[i][j] > 0 /\ c[j][k] > 0) => c[i][k] > 0
        /\ (c[i][j] = 0) => (c[j][i] = 0)
        /\ (c[i][j] < 0) => (c[j][i] > 0)

\* p sorts for the verdicts c and keeps the order of equal elements.
StableSorted(c, p) ==
    \A i, j \in DOMAIN c :
        i < j => (c[p[i]][p[j]] < 0 \/ (c[p[i]][p[j]] = 0 /\ p[i] < p[j]))

\* fetchedVotes.sort(...): with a consistent comparator the one stable
\* sorted order; otherwise the order is implementation-defined, and every
\* order of the elements is an outcome.
SortOutcomes(list) ==
    LET c == CompareTable(list)
        all == Permutations(1..Len(list))
        ps == IF Consistent(c)
              THEN { q \in all : StableSorted(c, q) }
              ELSE all
    IN { [i \in 1..Len(list) |-> list[p[i]]] : p \in ps }

-----------------------------------------------------------------------------
(* What the network can hand to the client.  A Senate body is its text     *)
(* and, when the text is JSON, the value JSON.parse returns; a House body  *)
(* is its text and, when the text is well-formed XML, its rollcall-vote    *)
(* elements in document order.                                             *)

Congresses == {118}
Sessions == {1, 2}

SettingsSpace ==
    [congress : Congresses, session : Sessions,
     includeHouse : BOOLEAN, includeSenate : BOOLEAN]

Counts(yea, nay) == <<[Yea |-> <<yea>>, Nay |-> <<nay>>]>>

SenateRecords ==
    { [vote_number |-> <<"5">>, vote_date |-> <<"2024-03-01">>,
       issue |-> <<" HR1 ">>, question |-> <<" On Passage ">>,
       result |-> <<"Agreed to">>, counts |-> Counts("60", "40")],
      [vote_number |-> <<"6">>, vote_date |-> <<"2024-03-03">>,
       issue |-> Undefined, question |-> <<"On the Motion">>,
       result |-> <<"Rejected">>, counts |-> Counts("40", "60")] }

HouseElements ==
    { [action_date |-> <<"2024-03-02">>, action_time |-> <<"14:00">>,
       rollcall_num |-> <<"10">>, vote_question |-> <<"On Agreeing">>,
       vote_result |-> <<"Passed">>, yea_total |-> <<"200">>,
       nay_total |-> <<"150">>],
      [action_date |-> <<"2024-03-01">>, action_time |-> <<"09:00">>,
       rollcall_num |-> <<"11">>, vote_question |-> <<"">>,
       vote_result |-> <<"Failed">>, yea_total |-> <<"150">>,
       nay_total |-> <<"200">>],
      [action_date |-> Undefined, action_time |-> Undefined,
       rollcall_num |-> Undefined, vote_question |-> Undefined,
       vote_result |-> Undefined, yea_total |-> Undefined,
       nay_total |-> Undefined] }

SeqsUpTo(S, n) == UNION { [1..k -> S] : k \in 0..n }

\* JSON values a Senate body can parse to.  roll_call is absent, or has
\* kind "null", "object" (one record, not in an array) or "array".
SenateJson ==
    { [null |-> TRUE, roll_calls |-> Undefined],
      [null |-> FALSE, roll_calls |-> Undefined],
      [null |-> FALSE, roll_calls |-> <<[roll_call |-> Undefined]>>],
      [null |-> FALSE,
       roll_calls |-> <<[roll_call |-> <<[kind |-> "null", items |-> <<>>]>>]>>],
      [null |-> FALSE,
       roll_calls |-> <<[roll_call |-> <<[kind |-> "object", items |-> <<>>]>>]>>] }
    \cup
    { [null |-> FALSE,
       roll_calls |-> <<[roll_call |-> <<[kind |-> "array", items |-> l]>>]>>] :
        l \in SeqsUpTo(SenateRecords, MaxSenate) }

SenateOutcomes ==
    { [kind |-> "network", status |-> 0, text |-> "", json |-> <<>>,
       message |-> "Failed to fetch"],
      [kind |-> "body", status |-> 200, text |-> "", json |-> <<>>,
       message |-> "network error"],
      [kind |-> "response", status |-> 404,
       text |-> "Error fetching data from Senate API", json |-> <<>>,
       message |-> ""],
      [kind |-> "response", status |-> 200, text |-> "<!doctype html>",
       json |-> <<>>, message |-> ""] }
    \cup
    { [kind |-> "response", status |-> 200, text |-> "{..}", json |-> <<j>>,
       message |-> ""] : j \in SenateJson }

HouseOutcomes ==
    { [kind |-> "network", status |-> 0, text |-> "", doc |-> <<>>,
       message |-> "Failed to fetch"],
      [kind |-> "body", status |-> 200, text |-> "", doc |-> <<>>,
       message |-> "network error"],
      [kind |-> "response", status |-> 404,
       text |-> "Error fetching data from House API", doc |-> <<>>,
       message |-> ""],
      [kind |-> "response", status |-> 200, text |-> "<rollcall-vote>",
       doc |-> <<>>, message |-> "unclosed token"] }
    \cup
    { [kind |-> "response", status |-> 200, text |-> "<..>", doc |-> <<d>>,
       message |-> ""] : d \in SeqsUpTo(HouseElements, MaxHouse) }

-----------------------------------------------------------------------------
(* fetchJson and fetchXml: a value, or the message of the Error thrown.    *)

Thrown(m) == [ok |-> FALSE, value |-> <<>>, message |-> m]
Returned(v) == [ok |-> TRUE, value |-> <<v>>, message |-> ""]

fetchJson(out, label) ==
    IF out.kind = "network"
    THEN Thrown(label \o " failed (network): " \o out.message)
    ELSE IF out.kind = "body"
    THEN Thrown(out.message)
    ELSE IF ~Ok(out.status)
    THEN Thrown(Trim(label \o " failed (HTTP " \o ToString(out.status)
                     \o "). " \o Slice(out.text)))
    ELSE IF out.json = <<>>
    THEN Thrown(label \o " returned invalid JSON. Response text: "
                \o Slice(out.text))
    ELSE Returned(out.json[1])

fetchXml(out, label) ==
    IF out.kind = "network"
    THEN Thrown(label \o " failed (network): " \o out.message)
    ELSE IF out.kind = "body"
    THEN Thrown(out.message)
    ELSE IF ~Ok(out.status)
    THEN Thrown(Trim(label \o " failed (HTTP " \o ToString(out.status)
                     \o "). " \o Slice(out.text)))
    ELSE IF out.doc = <<>>
    THEN Thrown(label \o " XML parse error: " \o out.message)
    ELSE Returned(out.doc[1])

-----------------------------------------------------------------------------
(* fetchVotes: the two mappings.                                           *)

\* the TypeError the arrow function of the Senate map throws on v, if any
SenateRecordError(v) ==
    IF v.issue = Undefined \/ v.question = Undefined
    THEN <<"Cannot read properties of undefined (reading 'trim')">>
    ELSE IF v.counts = Undefined
    THEN <<"Cannot read properties of undefined (reading 'Yea')">>
    ELSE <<>>

SenateVote(v, s) ==
    [chamber |-> "Senate",
     number |-> v.vote_number,
     date |-> v.vote_date,
     title |-> Trim(v.issue[1]) \o ": " \o Trim(v.question[1]),
     result |-> Str(v.result) \o " (" \o Str(v.counts[1].Yea) \o "-"
                \o Str(v.counts[1].Nay) \o ")",
     key |-> "s-" \o ToString(s.congress) \o "-" \o ToString(s.session)
             \o "-" \o Str(v.vote_number)]

\* lines 290-305: the votes the Senate branch pushes, or the Error thrown
SenateBranch(data, s) ==
    IF data.null
    THEN Thrown("Cannot read properties of null (reading 'roll_calls')")
    ELSE IF data.roll_calls = Undefined
    THEN Returned(<<>>)
    ELSE IF data.roll_calls[1].roll_call = Undefined
    THEN Returned(<<>>)
    ELSE LET rc == data.roll_calls[1].roll_call[1]
             bad == { i \in 1..Len(rc.items) :
                        SenateRecordError(rc.items[i]) # <<>> }
             first == CHOOSE i \in bad : \A j \in bad : i <= j
         IN IF rc.kind = "null"
            THEN Returned(<<>>)
            ELSE IF rc.kind # "array"
            THEN Thrown("data.roll_calls.roll_call.map is not a function")
            ELSE IF bad # {}
            THEN Thrown(SenateRecordError(rc.items[first])[1])
            ELSE Returned([i \in 1..Len(rc.items) |->
                             SenateVote(rc.items[i], s)])

HouseVote_TitleOnlyWhenAbsent(v, year) ==
    [chamber |-> "House",
     number |-> v.rollcall_num,
     date |-> <<Str(v.action_date) \o "T" \o Str(v.action_time)>>,
     title |-> IF v.vote_question = Undefined
               THEN "N/A" ELSE v.vote_question[1],
     result |-> Str(v.vote_result) \o " (" \o Str(v.yea_total) \o "-"
                \o Str(v.nay_total) \o ")",
     key |-> "h-" \o ToString(year) \o "-" \o Str(v.rollcall_num)]

HouseVote(v, year) ==
    [chamber |-> "House",
     number |-> v.rollcall_num,
     date |-> <<Str(v.action_date) \o "T" \o Str(v.action_time)>>,
     title |-> IF v.vote_question = Undefined \/ v.vote_question[1] = ""
               THEN "N/A" ELSE v.vote_question[1],
     result |-> Str(v.vote_result) \o " (" \o Str(v.yea_total) \o "-"
                \o Str(v.nay_total) \o ")",
     key |-> "h-" \o ToString(year) \o "-" \o Str(v.rollcall_num)]

\* lines 313-330
HouseBranch(doc, year) == [i \in 1..Len(doc) |-> HouseVote(doc[i], year)]

-----------------------------------------------------------------------------
(* The Vote Aggregator.                                                    *)

ValidationMessage ==
    "Please select at least one chamber (House or Senate) to fetch votes."

NothingReceived == [senate |-> <<>>, house |-> <<>>]

InitClient ==
    /\ settings \in SettingsSpace
    /\ votes = <<>>
    /\ loading = FALSE
    /\ error = <<>>
    /\ pc = "idle"
    /\ cap = <<>>
    /\ fetchedVotes = <<>>
    /\ requests = <<>>
    /\ received = NothingReceived

\* SettingsPanel.handleInputChange
HandleInputChange ==
    /\ UNCHANGED <<relayVars, yearVars>>
    /\ \E name \in {"congress", "session", "includeHouse", "includeSenate"} :
         \E val \in (CASE name = "congress" -> Congresses
                       [] name = "session" -> Sessions
                       [] OTHER -> BOOLEAN) :
            settings' = [settings EXCEPT ![name] = val]
    /\ UNCHANGED <<votes, loading, error, pc, cap, fetchedVotes, requests,
                   received>>

\* catch (e) { setError(e.message); setVotes(fetchedVotes) }: the votes
\* gathered before the failure are shown
Fail_KeepsPartial(m) ==
    /\ error' = <<m>>
    /\ loading' = FALSE
    /\ pc' = "idle"
    /\ votes' = fetchedVotes
    /\ fetchedVotes' = <<>>
    /\ UNCHANGED <<requests, cap>>

\* setLoading(false) after the try block instead of in finally
Fail_LoadingStuck(m) ==
    /\ error' = <<m>>
    /\ pc' = "idle"
    /\ fetchedVotes' = <<>>
    /\ UNCHANGED <<votes, requests, cap, loading>>

\* catch (e) { setError(e.message) } finally { setLoading(false) }
Fail(m) ==
    /\ error' = <<m>>
    /\ loading' = FALSE
    /\ pc' = "idle"
    /\ fetchedVotes' = <<>>
    /\ UNCHANGED <<votes, requests, cap>>

\* lines 335-336 and finally
Finish(list) ==
    /\ \E sorted \in SortOutcomes(list) : votes' = sorted
    /\ loading' = FALSE
    /\ pc' = "idle"
    /\ fetchedVotes' = <<>>
    /\ UNCHANGED <<error, requests, cap>>

\* fetchVotes without the early return of the validation
FetchVotes_NoEarlyReturn ==
    /\ ~loading
    /\ UNCHANGED <<relayVars, yearVars>>
    /\ received' = NothingReceived
    /\ cap' = <<settings>>
    /\ UNCHANGED settings
    /\ error' = <<>>
    /\ votes' = <<>>
    /\ fetchedVotes' = <<>>
    /\ IF settings.includeSenate
       THEN /\ requests' = <<senateMenuUrl(settings.congress, settings.session)>>
            /\ pc' = "awaitSenate"
            /\ loading' = TRUE
       ELSE IF settings.includeHouse
       THEN /\ requests' = <<HOUSE_ROLLS_INDEX(
                               getYearForCongress(settings.congress,
                                                  settings.session))>>
            /\ pc' = "awaitHouse"
            /\ loading' = TRUE
       ELSE /\ requests' = <<>>
            /\ UNCHANGED <<pc, loading>>

\* fetchVotes starting both requests at once
FetchVotes_IssuesBoth ==
    /\ ~loading
    /\ UNCHANGED <<relayVars, yearVars>>
    /\ received' = NothingReceived
    /\ cap' = <<settings>>
    /\ UNCHANGED settings
    /\ IF ~settings.includeHouse /\ ~settings.includeSenate
       THEN /\ error' = <<ValidationMessage>>
            /\ votes' = <<>>
            /\ requests' = <<>>
            /\ UNCHANGED <<loading, pc, fetchedVotes>>
       ELSE /\ loading' = TRUE
            /\ error' = <<>>
            /\ votes' = <<>>
            /\ fetchedVotes' = <<>>
            /\ requests' =
                 (IF settings.includeSenate
                  THEN <<senateMenuUrl(settings.congress, settings.session)>>
                  ELSE <<>>)
                 \o (IF settings.includeHouse
                     THEN <<HOUSE_ROLLS_INDEX(
                              getYearForCongress(settings.congress,
                                                 settings.session))>>
                     ELSE <<>>)
            /\ pc' = IF settings.includeSenate THEN "awaitSenate"
                     ELSE "awaitHouse"

\* The click on "Fetch Votes" (disabled while loading), up to the first await.
FetchVotes ==
    /\ ~loading
    /\ UNCHANGED <<relayVars, yearVars>>
    /\ received' = NothingReceived
    /\ cap' = <<settings>>
    /\ UNCHANGED settings
    /\ IF ~settings.includeHouse /\ ~settings.includeSenate
       THEN /\ error' = <<ValidationMessage>>
            /\ votes' = <<>>
            /\ requests' = <<>>
            /\ UNCHANGED <<loading, pc, fetchedVotes>>
       ELSE /\ loading' = TRUE
            /\ error' = <<>>
            /\ votes' = <<>>
            /\ fetchedVotes' = <<>>
            /\ IF settings.includeSenate
               THEN /\ requests' = <<senateMenuUrl(settings.congress,
                                                   settings.session)>>
                    /\ pc' = "awaitSenate"
               ELSE /\ requests' = <<HOUSE_ROLLS_INDEX(
                                       getYearForCongress(settings.congress,
                                                          settings.session))>>
                    /\ pc' = "awaitHouse"

\* The Senate request settles: the rest of fetchJson, the Senate mapping,
\* and the callback up to its next await or its end.
SenateResponse ==
    /\ pc = "awaitSenate"
    /\ UNCHANGED <<relayVars, yearVars>>
    /\ UNCHANGED settings
    /\ \E out \in SenateOutcomes :
         LET s == cap[1]
             r == fetchJson(out, "Senate Votes")
             m == SenateBranch(r.value[1], s)
         IN /\ received' = [received EXCEPT !.senate = <<out>>]
            /\ IF ~r.ok THEN Fail(r.message)
               ELSE IF ~m.ok THEN Fail(m.message)
               ELSE IF s.includeHouse
               THEN /\ fetchedVotes' = m.value[1]
                    /\ requests' = Append(requests, HOUSE_ROLLS_INDEX(
                           getYearForCongress(s.congress, s.session)))
                    /\ pc' = "awaitHouse"
                    /\ UNCHANGED <<votes, loading, error, cap>>
               ELSE Finish(m.value[1])

\* The House request settles: the rest of fetchXml, the House mapping, the
\* sort and the end of the callback.
HouseResponse ==
    /\ pc = "awaitHouse"
    /\ UNCHANGED <<relayVars, yearVars>>
    /\ UNCHANGED settings
    /\ \E out \in HouseOutcomes :
         LET s == cap[1]
             year == getYearForCongress(s.congress, s.session)
             r == fetchXml(out, "House Votes")
         IN /\ received' = [received EXCEPT !.house = <<out>>]
            /\ IF ~r.ok THEN Fail(r.message)
               ELSE Finish(fetchedVotes \o HouseBranch(r.value[1], year))


IdleRelay == relay = <<>> /\ outbound = <<>> /\ upstream = <<>> /\ reply = <<>>
IdleYear == evalPrev = <<>> /\ evalCur = <<>>

Init == InitClient /\ IdleRelay /\ IdleYear
Next == HandleInputChange \/ FetchVotes \/ SenateResponse \/ HouseResponse
Spec == Init /\ [][Next]_vars

\* Every await of fetchVotes is on a fetch() that settles.
FairSpec == Spec /\ WF_vars(SenateResponse) /\ WF_vars(HouseResponse)

-----------------------------------------------------------------------------
(* The Proxy Relay.  req.params are strings; axios.get resolves on a 2xx   *)
(* status, rejects with error.response on any other status, and rejects    *)
(* without error.response when no response arrived.                        *)

SenateParams == {"117", "118"} \X {"1", "2"}
HouseParams == {"2023", "2024", "2025"}
UpstreamStatuses == {200, 201, 204, 304, 404, 500, 503}
UpstreamData == {"{\"roll_calls\":{}}", "<html>"}

UpstreamOutcomes ==
    { [responded |-> FALSE, status |-> 0, data |-> ""] }
    \cup { [responded |-> TRUE, status |-> st, data |-> d] :
             st \in UpstreamStatuses, d \in UpstreamData }

InitRelay ==
    /\ IdleRelay
    /\ IdleYear
    /\ settings = [congress |-> 118, session |-> 2,
                   includeHouse |-> TRUE, includeSenate |-> TRUE]
    /\ votes = <<>>
    /\ loading = FALSE
    /\ error = <<>>
    /\ pc = "idle"
    /\ cap = <<>>
    /\ fetchedVotes = <<>>
    /\ requests = <<>>
    /\ received = NothingReceived

\* app.get('/api/senate/:congress/:session'), up to await axios.get(url)
SenateEndpoint ==
    /\ relay = <<>>
    /\ \E prm \in SenateParams :
         LET url == "https://www.senate.gov/legislative/LIS/roll_call_lists/vote_menu_"
                    \o prm[1] \o "_" \o prm[2] \o ".json"
         IN /\ relay' = <<[endpoint |-> "senate", url |-> url]>>
            /\ outbound' = <<url>>
    /\ upstream' = <<>>
    /\ reply' = <<>>
    /\ UNCHANGED <<clientVars, yearVars>>

\* app.get('/api/house/:year'), up to await axios.get(url, ...)
HouseEndpoint ==
    /\ relay = <<>>
    /\ \E year \in HouseParams :
         LET url == "https://clerk.house.gov/evs/" \o year \o "/ROLLS.xml"
         IN /\ relay' = <<[endpoint |-> "house", url |-> url]>>
            /\ outbound' = <<url>>
    /\ upstream' = <<>>
    /\ reply' = <<>>
    /\ UNCHANGED <<clientVars, yearVars>>

\* error.response?.status || 500
ErrorStatus_Always500(out) == 500

ErrorStatus(out) ==
    IF out.responded /\ out.status # 0 THEN out.status ELSE 500

\* the try/catch of the Senate handler, once axios.get has settled
SenateSettled ==
    /\ relay # <<>>
    /\ relay[1].endpoint = "senate"
    /\ \E out \in UpstreamOutcomes :
         /\ upstream' = <<out>>
         /\ reply' = IF out.responded /\ Ok(out.status)
                     THEN <<[status |-> 200, type |-> "application/json"]>>
                     ELSE <<[status |-> ErrorStatus(out), type |-> "text/html"]>>
    /\ relay' = <<>>
    /\ UNCHANGED <<outbound, clientVars, yearVars>>

\* the try/catch of the House handler, once axios.get has settled
HouseSettled ==
    /\ relay # <<>>
    /\ relay[1].endpoint = "house"
    /\ \E out \in UpstreamOutcomes :
         /\ upstream' = <<out>>
         /\ reply' = IF out.responded /\ Ok(out.status)
                     THEN <<[status |-> 200, type |-> "application/xml"]>>
                     ELSE <<[status |-> ErrorStatus(out), type |-> "text/html"]>>
    /\ relay' = <<>>
    /\ UNCHANGED <<outbound, clientVars, yearVars>>

NextRelay == SenateEndpoint \/ HouseEndpoint \/ SenateSettled \/ HouseSettled
SpecRelay == InitRelay /\ [][NextRelay]_vars

-----------------------------------------------------------------------------
(* getYearForCongress applied to drawn inputs; the two latest evaluations  *)
(* are kept.                                                               *)

YearCongresses == {1, 2} \cup (117..MaxCongress)

InitYear == InitRelay

Evaluate ==
    /\ \E c \in YearCongresses, s \in Sessions :
         evalCur' = <<[congress |-> c, session |-> s,
                       year |-> getYearForCongress(c, s)]>>
    /\ evalPrev' = evalCur
    /\ UNCHANGED <<clientVars, relayVars>>

NextYear == Evaluate
SpecYear == InitYear /\ [][NextYear]_vars

-----------------------------------------------------------------------------
(* Vocabulary of the properties.                                           *)

Idle == pc = "idle"

\* the latest invocation passed validation and has ended
Ended == Idle /\ requests # <<>>

SenateUrlOf(s) == "/api/senate/" \o ToString(s.congress) \o "/" \o ToString(s.session)
HouseUrlOf(s) ==
    "/api/house/" \o ToString(1789 + (s.congress - 1) * 2 + (s.session - 1))

HouseIssued == \E i \in 1..Len(requests) : requests[i] = HouseUrlOf(cap[1])

\* network failure, non-2xx status or unparseable body of a settled request
SenateFailed ==
    /\ received.senate # <<>>
    /\ LET o == received.senate[1]
       IN o.kind # "response" \/ o.status < 200 \/ o.status > 299 \/ o.json = <<>>

HouseFailed ==
    /\ received.house # <<>>
    /\ LET o == received.house[1]
       IN o.kind # "response" \/ o.status < 200 \/ o.status > 299 \/ o.doc = <<>>

\* the Senate request settled with a 2xx status and a JSON body
SenateParsed == received.senate # <<>> /\ ~SenateFailed
HouseParsed == received.house # <<>> /\ ~HouseFailed

WellFormed(v) == v.issue # <<>> /\ v.question # <<>> /\ v.counts # <<>>

\* valid JSON, not null, whose roll_calls.roll_call is absent or is not a
\* list of well-formed records
SenateSoftShape ==
    /\ SenateParsed
    /\ LET d == received.senate[1].json[1]
       IN /\ ~d.null
          /\ \/ d.roll_calls = <<>>
             \/ d.roll_calls[1].roll_call = <<>>
             \/ d.roll_calls[1].roll_call[1].kind # "array"
             \/ \E i \in 1..Len(d.roll_calls[1].roll_call[1].items) :
                   ~WellFormed(d.roll_calls[1].roll_call[1].items[i])

Count(seq, x) == Cardinality({ i \in 1..Len(seq) : seq[i] = x })

SameElements(a, b) ==
    /\ Len(a) = Len(b)
    /\ \A i \in 1..Len(a) : Count(a, a[i]) = Count(b, a[i])

OfChamber(list, chamber) == SelectSeq(list, LAMBDA v : v.chamber = chamber)

StartsWith(text, prefix) ==
    Len(text) >= Len(prefix) /\ SubSeq(text, 1, Len(prefix)) = prefix

-----------------------------------------------------------------------------
(* C1: fetchVotes invoked with includeHouse and includeSenate both false   *)
(* ends at once with the validation error set and an empty vote list, and  *)
(* passes no URL to fetch(): nothing is awaited.                           *)
C1_ValidationNoNetwork ==
    [][(FetchVotes /\ ~settings.includeHouse /\ ~settings.includeSenate)
         => /\ error' = <<ValidationMessage>>
            /\ votes' = <<>>
            /\ requests' = <<>>
            /\ pc' = "idle"]_vars

\* the validation error is displayed, after an invocation with both toggles off
C1_Witness ==
    /\ cap # <<>>
    /\ ~cap[1].includeHouse /\ ~cap[1].includeSenate
    /\ error = <<ValidationMessage>>
    /\ votes = <<>>
    /\ requests = <<>>

(* C2: a fetch in which a request of a selected chamber failed (network    *)
(* failure, non-2xx status, unparseable body) ends with one error message  *)
(* set and an empty vote list, also when the Senate branch had gathered    *)
(* votes before the House request failed.                                  *)
C2_AllOrNothing ==
    (Idle /\ (SenateFailed \/ HouseFailed)) =>
        /\ Len(error) = 1
        /\ votes = <<>>
        /\ fetchedVotes = <<>>

\* the Senate branch returned votes and the House request then got a 404
C2_Witness ==
    /\ Idle
    /\ SenateParsed
    /\ SenateBranch(received.senate[1].json[1], cap[1]).ok
    /\ SenateBranch(received.senate[1].json[1], cap[1]).value[1] # <<>>
    /\ received.house # <<>>
    /\ received.house[1].status = 404
    /\ error # <<>>

(* C3: when the Senate body is valid JSON whose roll_calls.roll_call is    *)
(* absent or malformed, the Senate branch contributes no vote and the      *)
(* fetch does not end in an error: it goes on to the House if selected     *)
(* and ends with error unset unless the House request fails.               *)
C3_SenateSoftFailure ==
    SenateSoftShape =>
        /\ pc # "awaitSenate"
        /\ OfChamber(votes, "Senate") = <<>>
        /\ OfChamber(fetchedVotes, "Senate") = <<>>
        /\ cap[1].includeHouse => HouseIssued
        /\ (Idle /\ ~HouseFailed) => error = <<>>

(* C4: after a successful fetch the vote list is a permutation of the      *)
(* mapped votes of the selected chambers, and no vote stands before a      *)
(* vote whose parsed date is strictly later.                               *)
C4_PermutationSortedDescending ==
    (Ended /\ error = <<>>) =>
        /\ SameElements(votes,
              (IF SenateParsed
               THEN SenateBranch(received.senate[1].json[1], cap[1]).value[1]
               ELSE <<>>)
              \o (IF HouseParsed
                  THEN HouseBranch(received.house[1].doc[1],
                           1789 + (cap[1].congress - 1) * 2
                                + (cap[1].session - 1))
                  ELSE <<>>))
        /\ \A i, j \in 1..Len(votes) :
              i < j => LET ti == DateParse(votes[i].date)
                           tj == DateParse(votes[j].date)
                       IN ~(ti # NaN /\ tj # NaN /\ tj[1] > ti[1])

(* C6: in the vote list of a successful fetch no two votes have the same   *)
(* key.                                                                    *)
C6_KeyUnique ==
    (Ended /\ error = <<>>) =>
        \A i, j \in 1..Len(votes) : i # j => votes[i].key # votes[j].key

C7_YearMonotonic ==
    /\ evalCur # <<>> =>
         LET e == evalCur[1]
         IN /\ e.year = 1789 + (e.congress - 1) * 2 + (e.session - 1)
            /\ (e.congress = 118 /\ e.session = 1) => e.year = 2023
            /\ (e.congress = 118 /\ e.session = 2) => e.year = 2024
    /\ (evalPrev # <<>> /\ evalCur # <<>>) =>
         LET a == evalPrev[1]
             b == evalCur[1]
         IN (a.congress < b.congress
               \/ (a.congress = b.congress /\ a.session <= b.session))
            => a.year <= b.year

\* (117, 2) was evaluated, then (118, 1): the order crosses a congress
C7_Witness ==
    /\ evalPrev # <<>> /\ evalCur # <<>>
    /\ evalPrev[1].congress = 117 /\ evalPrev[1].session = 2
    /\ evalCur[1].congress = 118 /\ evalCur[1].session = 1
    /\ evalCur[1].year = 2023

\* what the House mapping yields for element v, in the fields C8 speaks of
HouseFields(v, year, title) ==
    [chamber |-> "House",
     key |-> "h-" \o ToString(year) \o "-" \o Str(v.rollcall_num),
     date |-> <<Str(v.action_date) \o "T" \o Str(v.action_time)>>,
     title |-> title]

FieldsOf(list) ==
    [i \in 1..Len(list) |->
        [chamber |-> list[i].chamber, key |-> list[i].key,
         date |-> list[i].date, title |-> list[i].title]]

YearOfCap == 1789 + (cap[1].congress - 1) * 2 + (cap[1].session - 1)

(* C8, amended: for a parsed House document with n rollcall-vote elements  *)
(* the House branch yields exactly n votes, one per element, each with     *)
(* chamber House, key "h-" + year + "-" + rollcall-num for the year of     *)
(* the settings the request was made with, date action-date + "T" +        *)
(* action-time, and title the vote-question text, or "N/A" when that       *)
(* child is absent or its text is empty; a missing child never aborts      *)
(* the fetch.                                                              *)
C8_HouseMapping ==
    (Idle /\ HouseParsed) =>
        LET doc == received.house[1].doc[1]
        IN /\ error = <<>>
           /\ SameElements(
                FieldsOf(OfChamber(votes, "House")),
                [i \in 1..Len(doc) |->
                   HouseFields(doc[i], YearOfCap,
                      IF doc[i].vote_question = <<>> \/ doc[i].vote_question = <<"">>
                      THEN "N/A" ELSE doc[i].vote_question[1])])

\* a House document with an element without children and an element whose
\* vote-question is empty was mapped, after the session was changed
C8_Witness ==
    /\ Idle /\ HouseParsed
    /\ \E i, j \in 1..Len(received.house[1].doc[1]) :
          /\ received.house[1].doc[1][i].vote_question = <<>>
          /\ received.house[1].doc[1][j].vote_question = <<"">>
    /\ Len(OfChamber(votes, "House")) = 2
    /\ settings.session # cap[1].session

(* C8 as claimed: as above, with title the vote-question text, or "N/A"    *)
(* when that child is absent.                                              *)
C8_HouseMappingTitleAbsent ==
    (Idle /\ HouseParsed) =>
        LET doc == received.house[1].doc[1]
        IN /\ error = <<>>
           /\ SameElements(
                FieldsOf(OfChamber(votes, "House")),
                [i \in 1..Len(doc) |->
                   HouseFields(doc[i], YearOfCap,
                      IF doc[i].vote_question = <<>>
                      THEN "N/A" ELSE doc[i].vote_question[1])])

(* C9: with both chambers selected the House request is issued only after  *)
(* the Senate request has completed successfully, the Senate URL first;    *)
(* if the Senate request fails the House request is never issued and the   *)
(* error shown is the Senate one.                                          *)
C9_SenateThenHouse ==
    /\ Len(requests) <= 2
    /\ (requests # <<>> /\ cap[1].includeSenate) =>
          /\ requests[1] = SenateUrlOf(cap[1])
          /\ Len(requests) = 2 =>
                /\ requests[2] = HouseUrlOf(cap[1])
                /\ cap[1].includeHouse
                /\ SenateParsed
    /\ SenateFailed =>
          /\ requests = <<SenateUrlOf(cap[1])>>
          /\ received.house = <<>>
          /\ Idle
          /\ Len(error) = 1
          /\ received.senate[1].kind # "body" =>
                StartsWith(error[1], "Senate Votes")
    /\ pc = "awaitHouse" => (cap[1].includeSenate => SenateParsed)

\* both chambers selected, the Senate request got a 404, the fetch is over
C9_Witness ==
    /\ Idle
    /\ cap # <<>> /\ cap[1].includeSenate /\ cap[1].includeHouse
    /\ received.senate # <<>>
    /\ received.senate[1].status = 404
    /\ requests = <<SenateUrlOf(cap[1])>>

(* C10: a fetch that passes validation has loading true from before its    *)
(* first request until it ends and false once it has ended, on success     *)
(* and on every failure alike; every such fetch ends, so loading is        *)
(* eventually false again; the validation-error path leaves loading false. *)
C10_Loading ==
    /\ [](loading <=> pc # "idle")
    /\ [][(FetchVotes /\ ~settings.includeHouse /\ ~settings.includeSenate)
            => (~loading /\ ~loading')]_vars
    /\ [][(FetchVotes /\ (settings.includeHouse \/ settings.includeSenate))
            => (loading' /\ requests' # <<>>)]_vars
    /\ (loading ~> ~loading)

\* a fetch that passed validation has ended in an error, loading is false
C10_Witness ==
    /\ Ended
    /\ error # <<>>
    /\ ~loading

====
